---------------------------- MODULE Spec2Model ----------------------------
(***************************************************************************)
(* Model of src/components/ParticleField.tsx: the microphone capture       *)
(* life cycle of ParticleField (startMicrophone, the cleanup effect, the   *)
(* sampling frame callback) and the per-frame tick of the 26 LetterGroup   *)
(* components (band extraction, smoothing, particle update, instance       *)
(* buffers).                                                               *)
(*                                                                         *)
(* Numbers.  The code computes in floating point; the model computes the   *)
(* same expressions exactly, on fixed grids:                               *)
(*   time, delta        tenths of a second                                 *)
(*   orbitSpeed, rotateSpeed, randomScale   tenths                         *)
(*   phase              tenths of a radian                                 *)
(*   angle              1/200 radian (orbitSpeed * delta * 0.5 is exact)   *)
(*   bass values        1/BassOne,   treble values   1/TrebleOne           *)
(*   Math.sin           hundredths, from a table of rounded values         *)
(* BassOne and TrebleOne carry enough factors of 5 and 10 for MaxFrames    *)
(* applications of lerp(.,.,0.2) and lerp(.,.,0.1) to be exact.            *)
(*                                                                         *)
(* Host semantics the component relies on (React / @react-three/fiber):    *)
(*   - useFrame registers its callback in a layout effect.  Host refs are  *)
(*     attached before layout effects run, and children's layout effects   *)
(*     run before their parent's; so every meshRef is attached before the  *)
(*     first frame, and in each frame the 26 LetterGroup callbacks run     *)
(*     (in alphabet order) before ParticleField's sampling callback.       *)
(*   - all frame callbacks of one host frame run in one task; promise      *)
(*     continuations, renders and effect cleanups run between frames.      *)
(*   - setListening(true) takes effect at the next render.                 *)
(*                                                                         *)
(* Specifications.  Spec is the component under these semantics, mounted   *)
(* with the clock at 0; SpecCapture is its capture life cycle alone;       *)
(* SpecLate mounts it late on the canvas clock; SpecTwin gives every       *)
(* letter group the same particle configuration; SpecCorrupt adds a clock  *)
(* that delivers a negative delta; SpecDetached adds a host that runs      *)
(* frames while a mesh is not attached (the case of the guard of line 77). *)
(***************************************************************************)
EXTENDS Integers, Sequences, FiniteSets

\* ------------------------------------------------------------------ bounds

\* Host frames per behaviour.
MaxFrames == 2

\* Invocations of startMicrophone and runs of the cleanup function per
\* behaviour of Spec, which interleaves them with the frames.
MaxStarts == 1

MaxTeardowns == 1

\* The same, per behaviour of SpecCapture, which runs the capture life cycle
\* alone.
MaxCaptureStarts == 2

MaxCaptureTeardowns == 2

\* Letter groups kept of the 26 of ALPHABET: the groups run the same code on
\* their own state.
MaxLetters == 2

\* Particles kept per letter group of the 30 of PARTICLES_PER_LETTER: forEach
\* runs the same body on each, with its index.
MaxParticles == 3

\* ------------------------------------------------------- program constants

PARTICLES_PER_LETTER == MaxParticles

\* ALPHABET.length
NumLetters == MaxLetters

\* analyser.fftSize
FftSize == 512

\* analyser.frequencyBinCount = fftSize / 2, the length of the snapshot
FrequencyBinCount == FftSize \div 2

Letters == 1..NumLetters

Slots == 0..(PARTICLES_PER_LETTER - 1)

Bins == 0..(FrequencyBinCount - 1)

CallIds == 1..(IF MaxStarts > MaxCaptureStarts THEN MaxStarts ELSE MaxCaptureStarts)

\* A ref holding null (call ids start at 1).
Null == 0

\* dataArrayRef holding null.
NoData == << >>

RECURSIVE Pow(_, _)
Pow(b, n) == IF n = 0 THEN 1 ELSE b * Pow(b, n - 1)

\* 1.0 in bass units: a multiple of 10*255 (band mean), of 2000 (breathing
\* target in hundredths * 0.05) and of 5^MaxFrames (lerp by 0.2).
BassOne == 102000 * Pow(5, MaxFrames)

\* 1.0 in treble units: a multiple of 50*255 and of 10^MaxFrames (lerp by 0.1).
TrebleOne == 12750 * Pow(10, MaxFrames)

VARIABLES
  phase,            \* "created" | "mounted" | "unmounted" : life of the component
  listening,        \* the rendered value of the listening state
  listenQueued,     \* setListening(true) was called and is not rendered yet
  calls,            \* startMicrophone invocation ->
                    \*   "idle" | "awaiting" | "done" | "failed" | "threw"
  alerts,           \* invocation -> number of alert() reports it made
  streams,          \* media stream of invocation c -> "none" | "live" | "ended"
  trackStops,       \* stream -> number of track.stop() calls on its tracks
  contexts,         \* audio context of invocation c -> "none" | "running" | "closed"
  closes,           \* context -> number of close() calls
  closeErrors,      \* context -> number of close() calls rejected (InvalidStateError)
  streamRef,        \* Null or a stream
  audioContextRef,  \* Null or a context
  analyserRef,      \* Null or the context whose analyser it holds
  dataArrayRef,     \* NoData or the snapshot array, Bins -> 0..255
  teardowns,        \* runs of the cleanup function so far
  frames,           \* host frames so far
  time,             \* state.clock elapsed time at the last frame
  loop,             \* "idle" | "callbacksDone" : the host frame loop
  samplesInFrame,   \* getByteFrequencyData calls made in the last frame
  meshRef,          \* letter -> its InstancedMesh is attached
  particles,        \* letter -> slot -> the particle record
  smoothedBass,     \* letter -> smoothedBass.current
  smoothedTreble,   \* letter -> smoothedTreble.current
  targetBass,       \* letter -> targetBass of its last tick
  targetTreble,     \* letter -> targetTreble of its last tick
  instanceMatrix,   \* letter -> slot -> the transform written by setMatrixAt
  instanceColor,    \* letter -> slot -> the color written by setColorAt
  matrixWrites,     \* letter -> the slots setMatrixAt wrote in the last frame, in order
  colorWrites,      \* letter -> the slots setColorAt wrote in the last frame, in order
  matrixNeedsUpdate, \* letter -> instanceMatrix.needsUpdate
  colorNeedsUpdate   \* letter -> instanceColor.needsUpdate

captureVars == <<phase, listening, listenQueued, calls, alerts, streams, trackStops,
                 contexts, closes, closeErrors, streamRef, audioContextRef,
                 analyserRef, dataArrayRef, teardowns>>

frameVars == <<frames, time, loop, samplesInFrame, meshRef, particles, smoothedBass,
               smoothedTreble, targetBass, targetTreble, instanceMatrix, instanceColor,
               matrixWrites, colorWrites, matrixNeedsUpdate, colorNeedsUpdate>>

\* What a tick of a letter group writes.
tickVars == <<particles, smoothedBass, smoothedTreble, targetBass, targetTreble,
              instanceMatrix, instanceColor, matrixWrites, colorWrites,
              matrixNeedsUpdate, colorNeedsUpdate>>

vars == <<captureVars, frameVars>>

\* ------------------------------------------------------------ capture

\* Mutant of NewDataArray: the buffer is allocated without being cleared.
NewDataArray_Uninitialised == [b \in Bins |-> 255]

\* new Uint8Array(analyser.frequencyBinCount): zero-filled.
NewDataArray == [b \in Bins |-> 0]

\* onClick={startMicrophone}: the button is rendered while !listening.  The
\* invocation runs to its await of getUserMedia.
StartMicrophone(c) ==
  /\ loop = "idle"
  /\ phase = "mounted"
  /\ ~listening
  /\ calls[c] = "idle"
  /\ \A d \in CallIds : d < c => calls[d] # "idle"
  /\ calls' = [calls EXCEPT ![c] = "awaiting"]
  /\ UNCHANGED <<phase, listening, listenQueued, alerts, streams, trackStops, contexts,
                 closes, closeErrors, streamRef, audioContextRef, analyserRef,
                 dataArrayRef, teardowns, frameVars>>

\* setListening(true): queued for the next render of a mounted component,
\* ignored by an unmounted one.
SetListeningTrue == listenQueued \/ phase = "mounted"

\* getUserMedia resolved with a stream: lines 193-207 run to the end.
GetUserMediaResolves(c) ==
  /\ loop = "idle"
  /\ calls[c] = "awaiting"
  /\ streams' = [streams EXCEPT ![c] = "live"]
  /\ streamRef' = c
  /\ contexts' = [contexts EXCEPT ![c] = "running"]
  /\ audioContextRef' = c
  /\ analyserRef' = c
  /\ dataArrayRef' = NewDataArray
  /\ listenQueued' = SetListeningTrue
  /\ calls' = [calls EXCEPT ![c] = "done"]
  /\ UNCHANGED <<phase, listening, alerts, trackStops, closes, closeErrors, teardowns, frameVars>>

\* Mutant of CatchReport: the failure is swallowed without a report.
CatchReport_Silent(c) == alerts

\* The catch block: console.error and alert; nothing is rethrown, so the
\* promise startMicrophone returns is fulfilled ("failed"), not rejected
\* ("threw").
CatchReport(c) == [alerts EXCEPT ![c] = @ + 1]

CatchOutcome == "failed"

\* getUserMedia rejected (permission denied, no device) or threw: catch.
GetUserMediaRejects(c) ==
  /\ loop = "idle"
  /\ calls[c] = "awaiting"
  /\ calls' = [calls EXCEPT ![c] = CatchOutcome]
  /\ alerts' = CatchReport(c)
  /\ UNCHANGED <<phase, listening, listenQueued, streams, trackStops, contexts, closes,
                 closeErrors, streamRef, audioContextRef, analyserRef, dataArrayRef,
                 teardowns, frameVars>>

\* getUserMedia resolved but the AudioContext constructor threw (no
\* AudioContext in this environment): line 193 ran, then catch.
AudioContextThrows(c) ==
  /\ loop = "idle"
  /\ calls[c] = "awaiting"
  /\ streams' = [streams EXCEPT ![c] = "live"]
  /\ streamRef' = c
  /\ calls' = [calls EXCEPT ![c] = CatchOutcome]
  /\ alerts' = CatchReport(c)
  /\ UNCHANGED <<phase, listening, listenQueued, trackStops, contexts, closes,
                 closeErrors, audioContextRef, analyserRef, dataArrayRef, teardowns, frameVars>>

\* The render that follows setListening(true).
Rerender ==
  /\ loop = "idle"
  /\ phase = "mounted"
  /\ listenQueued
  /\ listening' = TRUE
  /\ listenQueued' = FALSE
  /\ UNCHANGED <<phase, calls, alerts, streams, trackStops, contexts, closes, closeErrors,
                 streamRef, audioContextRef, analyserRef, dataArrayRef, teardowns, frameVars>>

\* streamRef.current.getTracks().forEach(track => track.stop())
StopTracks(s) == IF s = Null THEN streams ELSE [streams EXCEPT ![s] = "ended"]

CountStopTracks(s) == IF s = Null THEN trackStops ELSE [trackStops EXCEPT ![s] = @ + 1]

\* audioContextRef.current.close(): closes a running context; on a closed
\* context the returned promise is rejected.
CloseContext(a) == IF a = Null THEN contexts ELSE [contexts EXCEPT ![a] = "closed"]

CountClose(a) == IF a = Null THEN closes ELSE [closes EXCEPT ![a] = @ + 1]

CloseRejected(a) ==
  IF a # Null /\ contexts[a] = "closed" THEN [closeErrors EXCEPT ![a] = @ + 1]
  ELSE closeErrors

\* The cleanup function of the effect (lines 184-187).
Cleanup ==
  /\ streams' = StopTracks(streamRef)
  /\ trackStops' = CountStopTracks(streamRef)
  /\ contexts' = CloseContext(audioContextRef)
  /\ closes' = CountClose(audioContextRef)
  /\ closeErrors' = CloseRejected(audioContextRef)

\* stop(): the cleanup function runs (at unmount, and again on a repeated
\* call), at most n times.  The refs keep their values.
Teardown(n) ==
  /\ loop = "idle"
  /\ phase \in {"mounted", "unmounted"}
  /\ teardowns < n
  /\ teardowns' = teardowns + 1
  /\ phase' = "unmounted"
  /\ Cleanup
  /\ meshRef' = [g \in Letters |-> FALSE]
  /\ UNCHANGED <<listening, listenQueued, calls, alerts, streamRef, audioContextRef,
                 analyserRef, dataArrayRef, frames, time, loop, samplesInFrame, tickVars>>

\* The first commit: refs attached, frame callbacks registered.
Mount ==
  /\ phase = "created"
  /\ phase' = "mounted"
  /\ meshRef' = [g \in Letters |-> TRUE]
  /\ UNCHANGED <<listening, listenQueued, calls, alerts, streams, trackStops, contexts,
                 closes, closeErrors, streamRef, audioContextRef, analyserRef,
                 dataArrayRef, teardowns, frames, time, loop, samplesInFrame, tickVars>>


\* ------------------------------------------------------------ numbers

\* round(100 * sin(k / 10)) for k = 0..420
SinTable ==
  <<0, 10, 20, 30, 39, 48, 56, 64, 72, 78, 84, 89, 93, 96, 99, 100, 100, 99, 97, 95,
    91, 86, 81, 75, 68, 60, 52, 43, 33, 24, 14, 4, -6, -16, -26, -35, -44, -53, -61,
    -69, -76, -82, -87, -92, -95, -98, -99, -100, -100, -98, -96, -93, -88, -83, -77,
    -71, -63, -55, -46, -37, -28, -18, -8, 2, 12, 22, 31, 40, 49, 58, 66, 73, 79, 85,
    90, 94, 97, 99, 100, 100, 99, 97, 94, 90, 85, 80, 73, 66, 58, 50, 41, 32, 22, 12,
    2, -8, -17, -27, -37, -46, -54, -63, -70, -77, -83, -88, -92, -96, -98, -100, -100,
    -99, -98, -95, -92, -88, -82, -76, -69, -62, -54, -45, -36, -26, -17, -7, 3, 13,
    23, 33, 42, 51, 59, 67, 74, 80, 86, 91, 94, 97, 99, 100, 100, 99, 97, 93, 89, 85,
    79, 72, 65, 57, 49, 40, 30, 21, 11, 1, -9, -19, -29, -38, -47, -56, -64, -71, -78,
    -84, -89, -93, -96, -98, -100, -100, -99, -98, -95, -91, -87, -81, -75, -68, -60,
    -52, -43, -34, -25, -15, -5, 5, 15, 25, 34, 44, 52, 61, 68, 75, 81, 87, 91, 95, 98,
    99, 100, 100, 98, 96, 93, 89, 84, 78, 71, 64, 56, 47, 38, 29, 19, 9, -1, -11, -21,
    -30, -40, -49, -57, -65, -72, -79, -85, -90, -94, -97, -99, -100, -100, -99, -97,
    -94, -91, -86, -80, -74, -67, -59, -51, -42, -33, -23, -13, -3, 7, 17, 26, 36, 45,
    54, 62, 69, 76, 82, 88, 92, 95, 98, 99, 100, 100, 98, 96, 92, 88, 83, 77, 70, 62,
    54, 46, 37, 27, 17, 7, -3, -13, -22, -32, -41, -50, -59, -66, -73, -80, -86, -90,
    -94, -97, -99, -100, -100, -99, -97, -94, -90, -85, -79, -73, -66, -58, -49, -40,
    -31, -21, -12, -2, 8, 18, 28, 37, 47, 55, 63, 71, 77, 83, 88, 93, 96, 98, 100, 100,
    99, 98, 95, 92, 87, 82, 76, 69, 61, 53, 44, 35, 25, 16, 6, -4, -14, -24, -34, -43,
    -52, -60, -68, -75, -81, -86, -91, -95, -97, -99, -100, -100, -99, -96, -93, -89,
    -84, -78, -72, -64, -56, -48, -39, -29, -20, -10, 0, 10, 20, 30, 39, 48, 57, 64,
    72, 78, 84, 89, 93, 96, 99, 100, 100, 99, 97, 95, 91, 86, 81, 75, 67, 60, 51, 43,
    33, 24, 14, 4, -6, -16, -26, -35, -44, -53, -61, -69, -76, -82, -87, -92>>

\* Math.sin of x tenths of a radian, in hundredths.
Sin100(x) == IF x < 0 THEN -SinTable[1 - x] ELSE SinTable[x + 1]

\* Mutant of JsMod: the dividend is passed on without reduction.
JsMod_None(a, m) == a

\* JavaScript's %: the result has the sign of the dividend.
JsMod(a, m) == IF a < 0 THEN -((-a) % m) ELSE a % m

\* THREE.MathUtils.lerp(x, y, t) = (1 - t) * x + t * y, with t = num / den.
lerp(x, y, num, den) == ((den - num) * x + num * y) \div den

\* ------------------------------------------------------------ inputs

\* Frame deltas the host clock delivers, in tenths of a second.
Deltas == {0, 1}

\* Frequency snapshots the analyser delivers.
SpectrumIds == 1..4

Spectrum(k) ==
  [b \in Bins |->
     CASE k = 1 -> IF b < 10 THEN 20 * b + 5 ELSE 0
       [] k = 2 -> IF b < 10 THEN 20 * b + 5
                   ELSE IF b >= 100 /\ b < 150 THEN b ELSE 255
       [] k = 3 -> IF b >= 100 /\ b < 150 THEN b ELSE 0
       [] OTHER -> 255]

\* Outcomes of Math.random() in useMemo, as a generator: draw k of particle i
\* of letter g under seed s, in 0..(n - 1).
Seeds == {1, 2}

Random(s, g, i, k, n) == (s * 843 + g * 211 + i * 37 + k * 101) % n

\* One particle of useMemo (lines 50-70), on the grids of the header.
NewParticle(s, g, i) ==
  [ radius      |-> 8 + Random(s, g, i, 1, 10),
    angle       |-> Random(s, g, i, 2, 1257),
    y           |-> Random(s, g, i, 3, 30) - 15,
    orbitSpeed  |-> 2 + Random(s, g, i, 4, 2),
    rotateSpeed |-> 5 + Random(s, g, i, 5, 15),
    randomScale |-> 8 + Random(s, g, i, 6, 5),
    phase       |-> Random(s, g, i, 7, 63) ]

\* The particles of all letter groups, one configuration per seed.
Configurations ==
  {[g \in Letters |-> [i \in Slots |-> NewParticle(s, g, i)]] : s \in Seeds}

\* ------------------------------------------------------------ the tick

\* for (let i = lo; i < hi; i++) sum += data[i]
RECURSIVE BandSum(_, _, _, _)
BandSum(data, i, hi, sum) ==
  IF i < hi THEN BandSum(data, i + 1, hi, sum + data[i]) ELSE sum

\* Mutant of ActiveTargetBass: the division by 255 left out.
ActiveTargetBass_Unnormalised(data) == BandSum(data, 0, 10, 0) * (BassOne \div 10)

\* targetBass = (bassSum / 10) / 255
ActiveTargetBass(data) == BandSum(data, 0, 10, 0) * (BassOne \div (10 * 255))

\* Mutant of ActiveTargetTreble: the band starts and ends one bin late.
ActiveTargetTreble_Shifted(data) ==
  BandSum(data, 101, 151, 0) * (TrebleOne \div (50 * 255))

\* targetTreble = (trebleSum / 50) / 255
ActiveTargetTreble(data) == BandSum(data, 100, 150, 0) * (TrebleOne \div (50 * 255))

\* targetBass = Math.sin(time * 2) * 0.05 + 0.05
IdleTargetBass(t) == (Sin100(t * 2) * 5 + 500) * (BassOne \div 10000)

\* The branch of line 84.
ActiveBranch == listening /\ dataArrayRef # NoData

TargetBass(t) == IF ActiveBranch THEN ActiveTargetBass(dataArrayRef) ELSE IdleTargetBass(t)

TargetTreble == IF ActiveBranch THEN ActiveTargetTreble(dataArrayRef) ELSE 0

\* Mutant of SmoothBass: the bass smoothed with the treble's factor.
SmoothBass_Slow(g, t) == lerp(smoothedBass[g], TargetBass(t), 1, 10)

\* Mutant of SmoothTreble: the smoothed treble carries an offset that differs
\* from one letter group to the next.
SmoothTreble_LetterBias(g) == lerp(smoothedTreble[g], TargetTreble, 1, 10) + g

\* Lines 102-103.
SmoothBass(g, t) == lerp(smoothedBass[g], TargetBass(t), 2, 10)

SmoothTreble(g) == lerp(smoothedTreble[g], TargetTreble, 1, 10)

\* Mutant of Orbit: the orbit step also moves the particle outwards.
Orbit_Drift(p, delta) ==
  [p EXCEPT !.angle = @ + p.orbitSpeed * delta, !.radius = @ + delta]

\* p.angle += p.orbitSpeed * delta * 0.5   (tenths * tenths * 0.5 = 1/200)
Orbit(p, delta) == [p EXCEPT !.angle = @ + p.orbitSpeed * delta]

\* Mutant of Transform: the bass contracts the radius and the scale.
Transform_Contracting(p, t, bass) ==
  [ radius    |-> p.radius * BassOne - bass * 2,
    angle     |-> p.angle,
    y         |-> p.y * 200 + Sin100(t + p.phase),
    rotationY |-> t * p.rotateSpeed + p.phase * 10,
    scale     |-> p.randomScale * (BassOne \div 50) - bass * 12 ]

\* Mutant of Transform: the scale ignores the bass.
Transform_FlatScale(p, t, bass) ==
  [ radius    |-> p.radius * BassOne + bass * 2,
    angle     |-> p.angle,
    y         |-> p.y * 200 + Sin100(t + p.phase),
    rotationY |-> t * p.rotateSpeed + p.phase * 10,
    scale     |-> p.randomScale * (BassOne \div 50) ]

\* Mutant of Transform: the expansion is bass * 1 and the boost bass * 10.
Transform_Weaker(p, t, bass) ==
  [ radius    |-> p.radius * BassOne + bass,
    angle     |-> p.angle,
    y         |-> p.y * 200 + Sin100(t + p.phase),
    rotationY |-> t * p.rotateSpeed + p.phase * 10,
    scale     |-> p.randomScale * (BassOne \div 50) + bass * 10 ]

\* The transform of lines 113-137, for the particle after its orbit step.
\* The position is kept in cylindrical form: x = radius * cos(angle),
\* z = radius * sin(angle).  radius and scale in 1/BassOne, angle in 1/200
\* radian, y in 1/200, rotationY in hundredths of a radian.
Transform(p, t, bass) ==
  [ radius    |-> p.radius * BassOne + bass * 2,
    angle     |-> p.angle,
    y         |-> p.y * 200 + Sin100(t + p.phase),
    rotationY |-> t * p.rotateSpeed + p.phase * 10,
    scale     |-> p.randomScale * (BassOne \div 50) + bass * 12 ]

\* hue = (time * 0.1 + i * 0.02 + treble * 0.5) % 1, in 1/(2 * TrebleOne)
Hue(t, i, treble) ==
  JsMod(t * (TrebleOne \div 50) + i * (TrebleOne \div 25) + treble, 2 * TrebleOne)

\* Mutant of Color: the lightness 0.4 + bass * 0.3 of line 143 is applied.
Color_BassLightness(t, i, treble) ==
  [h |-> Hue(t, i, treble), s |-> 100, l |-> 40 + (30 * smoothedBass[1]) \div BassOne]

\* new THREE.Color().setHSL(hue, 1.0, 0.5); s and l in hundredths.
Color(t, i, treble) == [h |-> Hue(t, i, treble), s |-> 100, l |-> 50]

\* Mutant of ForEachOrder: the slots visited from the last to the first.
ForEachOrder_Reversed == [n \in 1..PARTICLES_PER_LETTER |-> PARTICLES_PER_LETTER - n]

\* The slots particles.forEach visits, in order.
ForEachOrder == [n \in 1..PARTICLES_PER_LETTER |-> n - 1]

\* Mutant of LetterTickRuns: the group ticks only while listening.
LetterTickRuns_Listening(g) == meshRef[g] /\ listening

\* if (!meshRef.current) return;  the callback of letter group g goes on.
LetterTickRuns(g) == meshRef[g]

\* The sampling callback of ParticleField (lines 214-218).
Samples == listening /\ analyserRef # Null /\ dataArrayRef # NoData

\* One host frame: the clock advances by delta, the 26 letter callbacks run,
\* then the sampling callback reads snapshot k from the analyser.
Frame(delta, k) ==
  /\ phase = "mounted"
  /\ loop = "idle"
  /\ frames < MaxFrames
  /\ Samples \/ k = 1
  /\ LET t == time + delta IN
     /\ time' = t
     /\ targetBass' = [g \in Letters |->
          IF LetterTickRuns(g) THEN TargetBass(t) ELSE targetBass[g]]
     /\ targetTreble' = [g \in Letters |->
          IF LetterTickRuns(g) THEN TargetTreble ELSE targetTreble[g]]
     /\ smoothedBass' = [g \in Letters |->
          IF LetterTickRuns(g) THEN SmoothBass(g, t) ELSE smoothedBass[g]]
     /\ smoothedTreble' = [g \in Letters |->
          IF LetterTickRuns(g) THEN SmoothTreble(g) ELSE smoothedTreble[g]]
     /\ particles' = [g \in Letters |->
          IF LetterTickRuns(g)
          THEN [i \in Slots |-> Orbit(particles[g][i], delta)]
          ELSE particles[g]]
     /\ instanceMatrix' = [g \in Letters |->
          IF LetterTickRuns(g)
          THEN [i \in Slots |-> Transform(particles'[g][i], t, smoothedBass'[g])]
          ELSE instanceMatrix[g]]
     /\ instanceColor' = [g \in Letters |->
          IF LetterTickRuns(g)
          THEN [i \in Slots |-> Color(t, i, smoothedTreble'[g])]
          ELSE instanceColor[g]]
  /\ matrixWrites' = [g \in Letters |->
       IF LetterTickRuns(g) THEN ForEachOrder ELSE << >>]
  /\ colorWrites' = [g \in Letters |->
       IF LetterTickRuns(g) THEN ForEachOrder ELSE << >>]
  /\ matrixNeedsUpdate' = [g \in Letters |-> LetterTickRuns(g) \/ matrixNeedsUpdate[g]]
  /\ colorNeedsUpdate' = [g \in Letters |->
       (LetterTickRuns(g) /\ instanceColor'[g] # << >>) \/ colorNeedsUpdate[g]]
  /\ dataArrayRef' = IF Samples THEN Spectrum(k) ELSE dataArrayRef
  /\ samplesInFrame' = IF Samples THEN 1 ELSE 0
  /\ frames' = frames + 1
  /\ loop' = "callbacksDone"
  /\ UNCHANGED <<phase, listening, listenQueued, calls, alerts, streams, trackStops,
                 contexts, closes, closeErrors, streamRef, audioContextRef, analyserRef,
                 teardowns, meshRef>>

\* The renderer draws the scene after the callbacks of the frame and uploads
\* the buffers marked for update.
RenderScene ==
  /\ loop = "callbacksDone"
  /\ loop' = "idle"
  /\ matrixNeedsUpdate' = [g \in Letters |-> FALSE]
  /\ colorNeedsUpdate' = [g \in Letters |-> FALSE]
  /\ UNCHANGED <<captureVars, frames, time, samplesInFrame, meshRef, particles,
                 smoothedBass, smoothedTreble, targetBass, targetTreble, instanceMatrix,
                 instanceColor, matrixWrites, colorWrites>>

\* The state after construction, with the host clock at t0 and the particles
\* drawn as one of configs.
InitAt(t0, configs) ==
  /\ phase = "created"
  /\ listening = FALSE
  /\ listenQueued = FALSE
  /\ calls = [c \in CallIds |-> "idle"]
  /\ alerts = [c \in CallIds |-> 0]
  /\ streams = [c \in CallIds |-> "none"]
  /\ trackStops = [c \in CallIds |-> 0]
  /\ contexts = [c \in CallIds |-> "none"]
  /\ closes = [c \in CallIds |-> 0]
  /\ closeErrors = [c \in CallIds |-> 0]
  /\ streamRef = Null
  /\ audioContextRef = Null
  /\ analyserRef = Null
  /\ dataArrayRef = NoData
  /\ teardowns = 0
  /\ frames = 0
  /\ time = t0
  /\ loop = "idle"
  /\ samplesInFrame = 0
  /\ meshRef = [g \in Letters |-> FALSE]
  /\ particles \in configs
  /\ smoothedBass = [g \in Letters |-> 0]
  /\ smoothedTreble = [g \in Letters |-> 0]
  /\ targetBass = [g \in Letters |-> 0]
  /\ targetTreble = [g \in Letters |-> 0]
  /\ instanceMatrix = [g \in Letters |-> << >>]
  /\ instanceColor = [g \in Letters |-> << >>]
  /\ matrixWrites = [g \in Letters |-> << >>]
  /\ colorWrites = [g \in Letters |-> << >>]
  /\ matrixNeedsUpdate = [g \in Letters |-> FALSE]
  /\ colorNeedsUpdate = [g \in Letters |-> FALSE]

\* ParticleField mounted with the canvas clock at 0.
Init == InitAt(0, Configurations)

Next ==
  \/ Mount
  \/ \E c \in 1..MaxStarts : StartMicrophone(c)
  \/ \E c \in CallIds : GetUserMediaResolves(c)
  \/ \E c \in CallIds : GetUserMediaRejects(c)
  \/ \E c \in CallIds : AudioContextThrows(c)
  \/ Rerender
  \/ Teardown(MaxTeardowns)
  \/ \E delta \in Deltas, k \in SpectrumIds : Frame(delta, k)
  \/ RenderScene

Spec == Init /\ [][Next]_vars

\* The capture life cycle alone: no frame runs.
NextCapture ==
  \/ Mount
  \/ \E c \in 1..MaxCaptureStarts : StartMicrophone(c)
  \/ \E c \in CallIds : GetUserMediaResolves(c)
  \/ \E c \in CallIds : GetUserMediaRejects(c)
  \/ \E c \in CallIds : AudioContextThrows(c)
  \/ Rerender
  \/ Teardown(MaxCaptureTeardowns)

SpecCapture == Init /\ [][NextCapture]_vars

\* Deltas of a faulty frame clock.
CorruptDeltas == {-1}

\* Spec with a frame clock that may also deliver a negative delta.
NextCorrupt ==
  \/ Mount
  \/ \E c \in 1..MaxStarts : StartMicrophone(c)
  \/ \E c \in CallIds : GetUserMediaResolves(c)
  \/ \E c \in CallIds : GetUserMediaRejects(c)
  \/ \E c \in CallIds : AudioContextThrows(c)
  \/ Rerender
  \/ Teardown(MaxTeardowns)
  \/ \E delta \in Deltas \cup CorruptDeltas, k \in SpectrumIds : Frame(delta, k)
  \/ RenderScene

SpecCorrupt == Init /\ [][NextCorrupt]_vars

\* Canvas clock readings at which ParticleField is mounted, in tenths of a
\* second: App mounts it when the user switches demos, with the clock of the
\* canvas already running.
MountTimes == {199}

InitLate == \E t0 \in MountTimes : InitAt(t0, Configurations)

\* Spec for a ParticleField mounted late on the canvas clock.
SpecLate == InitLate /\ [][Next]_vars

\* Math.random delivering the same draws to every letter group: all groups
\* start from the particle configuration of the first.
TwinConfigurations ==
  {[g \in Letters |-> [i \in Slots |-> NewParticle(s, 1, i)]] : s \in Seeds}

InitTwin == InitAt(0, TwinConfigurations)

\* Spec for letter groups that start from equal particle configurations.
SpecTwin == InitTwin /\ [][Next]_vars

\* The first commit under a host that registers the frame callbacks while the
\* meshes of the letters outside A are not attached yet.
MountDetached ==
  /\ phase = "created"
  /\ phase' = "mounted"
  /\ \E A \in (SUBSET Letters) \ {Letters} : meshRef' = [g \in Letters |-> g \in A]
  /\ UNCHANGED <<listening, listenQueued, calls, alerts, streams, trackStops, contexts,
                 closes, closeErrors, streamRef, audioContextRef, analyserRef,
                 dataArrayRef, teardowns, frames, time, loop, samplesInFrame, tickVars>>

\* The mesh of letter group g is attached to meshRef between two frames.
AttachMesh(g) ==
  /\ phase = "mounted"
  /\ loop = "idle"
  /\ ~meshRef[g]
  /\ meshRef' = [meshRef EXCEPT ![g] = TRUE]
  /\ UNCHANGED <<captureVars, frames, time, loop, samplesInFrame, tickVars>>

\* Spec with meshes that may be attached after the first frames.
NextDetached ==
  \/ Mount
  \/ MountDetached
  \/ \E g \in Letters : AttachMesh(g)
  \/ \E c \in 1..MaxStarts : StartMicrophone(c)
  \/ \E c \in CallIds : GetUserMediaResolves(c)
  \/ \E c \in CallIds : GetUserMediaRejects(c)
  \/ \E c \in CallIds : AudioContextThrows(c)
  \/ Rerender
  \/ Teardown(MaxTeardowns)
  \/ \E delta \in Deltas, k \in SpectrumIds : Frame(delta, k)
  \/ RenderScene

SpecDetached == Init /\ [][NextDetached]_vars

\* ------------------------------------------------------------ claims

\* 2 * pi in the angle unit lies between 1256 and 1257: a is below 2 * pi.
BelowTwoPi(a) == a * 10000 < 12566371

\* C1  Bounded smoothing: in every reachable state, whatever mix of Active
\* ticks (any snapshot) and idle ticks came before, every group's smoothed
\* bass and smoothed treble lie in [0, 1].
C1_BoundedSmoothing ==
  \A g \in Letters :
    /\ 0 <= smoothedBass[g] /\ smoothedBass[g] <= BassOne
    /\ 0 <= smoothedTreble[g] /\ smoothedTreble[g] <= TrebleOne

\* An Active tick on a non-silent snapshot has moved both smoothed values.
C1_Witness ==
  \E g \in Letters : smoothedBass[g] > 0 /\ smoothedTreble[g] > 0

\* C2  Angle wrap: after any number of ticks the angle stored for each
\* particle, and the angle its transform was computed from, lies in
\* [0, 2 * pi).
C2_AngleWrap ==
  \A g \in Letters : \A i \in Slots :
    /\ 0 <= particles[g][i].angle /\ BelowTwoPi(particles[g][i].angle)
    /\ instanceMatrix[g] # << >> =>
         /\ 0 <= instanceMatrix[g][i].angle
         /\ BelowTwoPi(instanceMatrix[g][i].angle)

\* C3  Capture state machine: listening is true only after an invocation of
\* startMicrophone has resolved and the analyser and the snapshot buffer are
\* set up; an invocation that fails leaves listening as it was, has reported
\* its failure once, and did not throw out of startMicrophone.
C3_CaptureStateMachine ==
  /\ [](listening \/ listenQueued =>
          /\ \E c \in CallIds : calls[c] = "done"
          /\ analyserRef # Null
          /\ dataArrayRef # NoData)
  /\ [](\A c \in CallIds :
          /\ calls[c] # "threw"
          /\ calls[c] = "failed" => alerts[c] = 1
          /\ calls[c] # "failed" => alerts[c] = 0)
  /\ [][\A c \in CallIds :
          calls[c] = "awaiting" /\ calls'[c] \in {"failed", "threw"} =>
            listening' = listening /\ listenQueued' = listenQueued]_vars

\* One invocation has failed and capture is Active through another.
C3_Witness ==
  /\ listening
  /\ \E c \in CallIds : calls[c] = "failed"

\* C4  Teardown during a pending request: when a request that was pending at
\* teardown resolves successfully afterwards, no capture stream and no audio
\* context is left held unreleased, and capture does not become Active.
C4_TeardownWhilePending ==
  [][\A c \in CallIds :
       phase = "unmounted" /\ calls[c] = "awaiting" /\ calls'[c] = "done" =>
         /\ streams'[c] # "live"
         /\ contexts'[c] # "running"
         /\ ~listening' /\ ~listenQueued']_vars

\* C5  Idempotent teardown: however often the teardown runs, started or not,
\* the tracks of a stream are stopped at most once, a context is closed at
\* most once, and no run fails.
C5_IdempotentTeardown ==
  \A c \in CallIds :
    /\ trackStops[c] <= 1
    /\ closes[c] <= 1
    /\ closeErrors[c] = 0

\* data[lo] + ... + data[hi]
RECURSIVE SumBins(_, _, _)
SumBins(data, lo, hi) ==
  IF hi < lo THEN 0 ELSE SumBins(data, lo, hi - 1) + data[hi]

\* A frame has just run its callbacks.
FrameStep == frames' = frames + 1

\* C6  Degraded idle mode: a tick in which capture is not Active uses target
\* bass sin(2 * elapsedTime) * 0.05 + 0.05, which is within [0, 0.1], and
\* target treble 0, and moves smoothed bass toward the target by factor 0.2;
\* while mounted the next frame can always run, whatever start() did.
C6_IdleMode ==
  /\ [][FrameStep /\ ~ActiveBranch =>
          \A g \in Letters :
            /\ targetBass'[g] = (Sin100(2 * time') + 100) * (BassOne \div 2000)
            /\ 0 <= targetBass'[g] /\ 10 * targetBass'[g] <= BassOne
            /\ targetTreble'[g] = 0
            /\ 5 * (smoothedBass'[g] - smoothedBass[g]) = targetBass'[g] - smoothedBass[g]
            /\ 10 * (smoothedTreble'[g] - smoothedTreble[g]) = 0 - smoothedTreble[g]]_vars
  /\ [](phase = "mounted" /\ loop = "idle" /\ frames < MaxFrames => ENABLED Frame(0, 1))

\* An idle frame has run after start() failed.
C6_Witness ==
  /\ loop = "callbacksDone"
  /\ \E c \in CallIds : calls[c] = "failed"
  /\ ~listening
  /\ \E g \in Letters : smoothedBass[g] > 0

\* C7  Latest snapshot per tick: in every frame in which capture is Active the
\* snapshot is refreshed once, and the targets every group used in that frame
\* are those of the snapshot refreshed in that frame.
C7_LatestSnapshot ==
  loop = "callbacksDone" /\ listening =>
    /\ samplesInFrame = 1
    /\ \A g \in Letters :
         /\ targetBass[g] = ActiveTargetBass(dataArrayRef)
         /\ targetTreble[g] = ActiveTargetTreble(dataArrayRef)

\* C8  Band extraction: in an Active tick the target bass is the mean of bins
\* 0..9 over 255 and the target treble the mean of bins 100..149 over 255;
\* both lie in [0, 1]; snapshots that agree on a band give the same target.
C8_BandExtraction ==
  /\ [][FrameStep /\ ActiveBranch =>
          \A g \in Letters :
            /\ targetBass'[g] = SumBins(dataArrayRef, 0, 9) * (BassOne \div 2550)
            /\ targetTreble'[g] = SumBins(dataArrayRef, 100, 149) * (TrebleOne \div 12750)
            /\ 0 <= targetBass'[g] /\ targetBass'[g] <= BassOne
            /\ 0 <= targetTreble'[g] /\ targetTreble'[g] <= TrebleOne]_vars
  /\ \A j, k \in SpectrumIds :
       /\ (\A b \in 0..9 : Spectrum(j)[b] = Spectrum(k)[b]) =>
            ActiveTargetBass(Spectrum(j)) = ActiveTargetBass(Spectrum(k))
       /\ (\A b \in 100..149 : Spectrum(j)[b] = Spectrum(k)[b]) =>
            ActiveTargetTreble(Spectrum(j)) = ActiveTargetTreble(Spectrum(k))

\* An Active tick has extracted non-zero targets from a sampled snapshot.
C8_Witness ==
  /\ loop = "callbacksDone"
  /\ samplesInFrame = 1
  /\ \E g \in Letters : targetBass[g] > 0 /\ targetTreble[g] > 0

\* C9  Defensive clamping: a tick with a negative delta or time behaves as if
\* it were clamped to zero: no particle's angle decreases in a tick and no
\* rotation is derived from a negative time.
C9_DefensiveClamping ==
  [][FrameStep =>
       \A g \in Letters : \A i \in Slots :
         /\ particles'[g][i].angle >= particles[g][i].angle
         /\ instanceMatrix'[g][i].rotationY >= particles[g][i].phase * 10]_vars

\* C10  Dirty flag every tick: when the callbacks of a host frame are done,
\* every group has written every slot of its buffers and has its transform
\* buffer and its color buffer marked for update, whatever the capture state.
C10_DirtyEveryTick ==
  loop = "callbacksDone" =>
    \A g \in Letters :
      /\ {matrixWrites[g][n] : n \in DOMAIN matrixWrites[g]} = Slots
      /\ {colorWrites[g][n] : n \in DOMAIN colorWrites[g]} = Slots
      /\ DOMAIN instanceMatrix[g] = Slots
      /\ DOMAIN instanceColor[g] = Slots
      /\ matrixNeedsUpdate[g]
      /\ colorNeedsUpdate[g]

\* A second frame has run, after the renderer cleared the flags of the
\* first, while capture is Active.
C10_Witness ==
  /\ loop = "callbacksDone"
  /\ frames = 2
  /\ listening


\* C11  Fixed slots in index order: the number of groups and of particles per
\* group never changes; when the callbacks of a frame are done every group has
\* written each slot once, in index order, and slot i holds the transform and
\* the color computed from particle i.
C11_FixedSlots ==
  /\ DOMAIN particles = Letters
  /\ \A g \in Letters :
       DOMAIN particles[g] = Slots /\ Cardinality(DOMAIN particles[g]) = PARTICLES_PER_LETTER
  /\ loop = "callbacksDone" =>
       \A g \in Letters :
         /\ matrixWrites[g] = [n \in 1..PARTICLES_PER_LETTER |-> n - 1]
         /\ colorWrites[g] = [n \in 1..PARTICLES_PER_LETTER |-> n - 1]
         /\ \A i \in Slots :
              /\ instanceMatrix[g][i] = Transform(particles[g][i], time, smoothedBass[g])
              /\ instanceColor[g][i] = Color(time, i, smoothedTreble[g])

\* A frame has filled a buffer whose first two slots differ.
C11_Witness ==
  /\ loop = "callbacksDone"
  /\ frames = 1
  /\ \E g \in Letters :
       /\ instanceMatrix[g][0] # instanceMatrix[g][1]
       /\ instanceColor[g][0] # instanceColor[g][1]

\* C12  Non-negative expansion and scale: every transform written has a radius
\* of at least the particle's radius and a scale of at least
\* 0.2 * randomScale, which is at least 0.
C12_NonNegativeExpansion ==
  \A g \in Letters :
    instanceMatrix[g] # << >> =>
      \A i \in Slots :
        /\ instanceMatrix[g][i].radius >= particles[g][i].radius * BassOne
        /\ instanceMatrix[g][i].scale >= particles[g][i].randomScale * (BassOne \div 50)
        /\ instanceMatrix[g][i].scale >= 0

\* A tick with smoothed bass 0 wrote a transform at the particle's own radius.
C12_Witness ==
  \E g \in Letters :
    /\ instanceMatrix[g] # << >>
    /\ smoothedBass[g] = 0
    /\ instanceMatrix[g][0].radius = particles[g][0].radius * BassOne

\* Bass values the scale is compared at: the ends of the range and the
\* smoothed values of the groups.
BassSamples == {0, BassOne} \cup {smoothedBass[g] : g \in Letters}

ScenarioParticle ==
  [ radius |-> 10, angle |-> 0, y |-> 0, orbitSpeed |-> 2, rotateSpeed |-> 5,
    randomScale |-> 10, phase |-> 0 ]

\* C14  Radius and scale formulas: every transform written has radius
\* p.radius + 2 * bass and scale 0.2 * p.randomScale + 12 * bass; for radius 10
\* and randomScale 1.0, bass 0 gives radius 10 and scale 0.2, and bass 1.0
\* gives radius 12 and scale 12.2.
C14_RadiusScaleFormulas ==
  /\ \A g \in Letters :
       instanceMatrix[g] # << >> =>
         \A i \in Slots :
           /\ instanceMatrix[g][i].radius =
                particles[g][i].radius * BassOne + 2 * smoothedBass[g]
           /\ 10 * instanceMatrix[g][i].scale =
                2 * particles[g][i].randomScale * (BassOne \div 10) + 120 * smoothedBass[g]
  /\ Transform(ScenarioParticle, 10, 0).radius = 10 * BassOne
  /\ 10 * Transform(ScenarioParticle, 10, 0).scale = 2 * BassOne
  /\ Transform(ScenarioParticle, 10, BassOne).radius = 12 * BassOne
  /\ 10 * Transform(ScenarioParticle, 10, BassOne).scale = 122 * BassOne

\* The renderer has drawn a frame whose tick expanded the radius.
C14_Witness ==
  /\ loop = "idle"
  /\ \E g \in Letters :
       /\ instanceMatrix[g] # << >>
       /\ smoothedBass[g] > 0
       /\ instanceMatrix[g][0].radius > particles[g][0].radius * BassOne


\* C15  Hue wrap: every color written has hue
\* (time * 0.1 + index * 0.02 + treble * 0.5) mod 1, which lies in [0, 1); at
\* time 20 s, index 0 and treble 0 the hue is 0.  Hues are in 1/(2 * TrebleOne).
C15_HueWrap ==
  /\ \A g \in Letters :
       instanceColor[g] # << >> =>
         /\ \A i \in Slots :
              /\ instanceColor[g][i].h =
                   (time * (TrebleOne \div 50) + i * (TrebleOne \div 25) + smoothedTreble[g])
                     % (2 * TrebleOne)
              /\ 0 <= instanceColor[g][i].h
              /\ instanceColor[g][i].h < 2 * TrebleOne
         /\ time = 200 /\ smoothedTreble[g] = 0 => instanceColor[g][0].h = 0
  /\ Hue(200, 0, 0) = 0

\* A tick at 20 s with treble 0 wrote hue 0 into slot 0.
C15_Witness ==
  /\ loop = "callbacksDone"
  /\ time = 200
  /\ \E g \in Letters :
       /\ instanceColor[g] # << >>
       /\ smoothedTreble[g] = 0
       /\ instanceColor[g][0].h = 0


C17_CompleteSnapshot ==
  /\ listening \/ listenQueued => dataArrayRef # NoData
  /\ dataArrayRef # NoData =>
       /\ DOMAIN dataArrayRef = 0..255
       /\ \A b \in 0..255 : dataArrayRef[b] \in 0..255
       /\ ~listening => \A b \in 0..255 : dataArrayRef[b] = 0
  /\ frames = 1 /\ loop = "callbacksDone" /\ listening =>
       \A g \in Letters : targetBass[g] = 0 /\ targetTreble[g] = 0

\* The first tick took the Active branch before any sample: its targets are
\* 0, and the sample of the same frame has filled the snapshot since.
C17_Witness ==
  /\ frames = 1
  /\ loop = "callbacksDone"
  /\ listening
  /\ samplesInFrame = 1
  /\ \A g \in Letters : targetBass[g] = 0 /\ targetTreble[g] = 0
  /\ \E b \in 0..255 : dataArrayRef[b] > 0


\* C18  Tick frame condition: after any number of ticks every particle has the
\* radius, y, orbitSpeed, rotateSpeed, randomScale and phase it was created
\* with; a frame changes no field of a particle but its angle and, outside
\* the groups' smoothed values and instance buffers, nothing but the clock
\* reading and the snapshot the sampling callback refreshes.
C18_TickFrameCondition ==
  /\ [](\E c \in Configurations : \A g \in Letters : \A i \in Slots :
          [particles[g][i] EXCEPT !.angle = 0] = [c[g][i] EXCEPT !.angle = 0])
  /\ [][FrameStep =>
          /\ \A g \in Letters : \A i \in Slots :
               particles'[g][i] = [particles[g][i] EXCEPT !.angle = particles'[g][i].angle]
          /\ UNCHANGED <<phase, listening, listenQueued, calls, alerts, streams, trackStops,
                         contexts, closes, closeErrors, streamRef, audioContextRef,
                         analyserRef, teardowns, meshRef>>
          /\ dataArrayRef' # dataArrayRef => Samples]_vars

\* Two ticks of 0.1 s have moved the angle of a particle and left its radius.
C18_Witness ==
  /\ frames = 2
  /\ loop = "idle"
  /\ \E c \in Configurations : \E g \in Letters :
       /\ particles[g][0].angle = c[g][0].angle + 2 * c[g][0].orbitSpeed
       /\ particles[g][0].radius = c[g][0].radius


\* C19  Fixed lightness: every color written has saturation 1.0 and lightness
\* 0.5, and is determined by the time, the slot and the smoothed treble
\* alone, whatever the smoothed bass.
C19_FixedLightness ==
  \A g \in Letters :
    instanceColor[g] # << >> =>
      \A i \in Slots :
        /\ instanceColor[g][i].s = 100
        /\ instanceColor[g][i].l = 50
        /\ instanceColor[g][i] = [h |-> Hue(time, i, smoothedTreble[g]), s |-> 100, l |-> 50]

\* A color was written by a tick whose smoothed bass is above 0.1.
C19_Witness ==
  /\ loop = "callbacksDone"
  /\ \E g \in Letters :
       /\ 10 * smoothedBass[g] > BassOne
       /\ instanceColor[g] # << >>
       /\ instanceColor[g][0].l = 50


\* C20  Per-group smoothers agree: in every reachable state all letter groups
\* hold the same smoothed bass and the same smoothed treble, also after a
\* frame that a group skipped because its mesh was not attached.
C20_SmoothersAgree ==
  \A g, h \in Letters :
    /\ smoothedBass[g] = smoothedBass[h]
    /\ smoothedTreble[g] = smoothedTreble[h]


\* C21  Overlapping start requests: in every reachable state, also when
\* startMicrophone was invoked again before an earlier invocation completed,
\* every live capture stream is the one streamRef holds and every running
\* audio context is the one audioContextRef holds, so that the cleanup
\* reaches all of them.
C21_OverlappingStarts ==
  \A c \in CallIds :
    /\ streams[c] = "live" => streamRef = c
    /\ contexts[c] = "running" => audioContextRef = c

=============================================================================
